---- MODULE Spec2Model ----
(***************************************************************************)
(* Logging middleware: Logger (logger.js) and the token provider (auth.js). *)
(*                                                                         *)
(* Node.js runs every callback to its next await without interruption, so  *)
(* one action is one such run: the call of Log up to the first request or  *)
(* timer, the arrival of a response, the firing of a backoff timer.        *)
(***************************************************************************)
EXTENDS Integers, Sequences, FiniteSets, TLC

(***************************************************************************)
(* Bounds of the model.                                                    *)
(***************************************************************************)
NumCalls == 2        \* Log calls that may be in flight together
MaxRetries == 3      \* largest value of config.retries explored
MaxTicks == 2        \* clock steps
MaxLifeSteps == 3    \* longest token lifetime the server grants, in clock steps
StartTime == 1000    \* Date.now()/1000 when the process starts
MaxRaceRetries == 2  \* largest value of config.retries of the concurrent callers

(***************************************************************************)
(* Program constants.                                                      *)
(***************************************************************************)
DEFAULT_RETRIES == 3         \* logger.js:33
MAX_MESSAGE_LENGTH == 48     \* logger.js:85
BACKOFF_BASE_MS == 1000      \* logger.js:203
EXPIRY_BUFFER == 60          \* auth.js:34

Calls == 1..NumCalls
TickSeconds == EXPIRY_BUFFER \div 2
MaxTime == StartTime + MaxTicks * TickSeconds

(***************************************************************************)
(* JavaScript values.  A string is a sequence of one-character strings;    *)
(* an argument is a string or undefined.                                   *)
(***************************************************************************)
Str(s) == [type |-> "string", chars |-> s]
Undefined == [type |-> "undefined"]
Null == [json |-> "null"]

UpperChars == <<"A", "B", "C", "D", "E", "F", "G", "H", "I", "J", "K", "L", "M",
                "N", "O", "P", "Q", "R", "S", "T", "U", "V", "W", "X", "Y", "Z">>
LowerChars == <<"a", "b", "c", "d", "e", "f", "g", "h", "i", "j", "k", "l", "m",
                "n", "o", "p", "q", "r", "s", "t", "u", "v", "w", "x", "y", "z">>

\* String.prototype.toLowerCase on one character
LowerChar(ch) ==
    IF \E i \in 1..Len(UpperChars) : UpperChars[i] = ch
    THEN LowerChars[CHOOSE i \in 1..Len(UpperChars) : UpperChars[i] = ch]
    ELSE ch

\* String.prototype.toLowerCase
toLowerCase(s) == [i \in 1..Len(s) |-> LowerChar(s[i])]

IsSpace(ch) == ch \in {" ", "\t", "\n"}

\* String.prototype.trim
trim(s) ==
    IF \A i \in 1..Len(s) : IsSpace(s[i])
    THEN <<>>
    ELSE LET first == CHOOSE i \in 1..Len(s) :
                          /\ ~IsSpace(s[i])
                          /\ \A j \in 1..(i - 1) : IsSpace(s[j])
             last == CHOOSE i \in 1..Len(s) :
                          /\ ~IsSpace(s[i])
                          /\ \A j \in (i + 1)..Len(s) : IsSpace(s[j])
         IN  SubSeq(s, first, last)

Repeat(ch, n) == [i \in 1..n |-> ch]

(***************************************************************************)
(* The taxonomy (logger.js:21-24).                                         *)
(***************************************************************************)
ALLOWED_STACKS ==
    { <<"b", "a", "c", "k", "e", "n", "d">>,
      <<"f", "r", "o", "n", "t", "e", "n", "d">> }
ALLOWED_LEVELS ==
    { <<"d", "e", "b", "u", "g">>, <<"i", "n", "f", "o">>, <<"w", "a", "r", "n">>,
      <<"e", "r", "r", "o", "r">>, <<"f", "a", "t", "a", "l">> }
ALLOWED_BACKEND_PACKAGES ==
    { <<"c", "a", "c", "h", "e">>, <<"c", "o", "n", "t", "r", "o", "l", "l", "e", "r">>,
      <<"c", "r", "o", "n">>, <<"d", "o", "m", "a", "i", "n">>,
      <<"h", "a", "n", "d", "l", "e", "r">>,
      <<"r", "e", "p", "o", "s", "i", "t", "o", "r", "y">>,
      <<"r", "o", "u", "t", "e">>, <<"s", "e", "r", "v", "i", "c", "e">> }
ALLOWED_COMMON_PACKAGES ==
    { <<"a", "u", "t", "h">>, <<"c", "o", "n", "f", "i", "g">>,
      <<"m", "i", "d", "d", "l", "e", "w", "a", "r", "e">> }

(***************************************************************************)
(* The package rule of validateLogParams: a backend stack takes the        *)
(* backend and the common packages, a frontend stack the common ones.      *)
(***************************************************************************)
PackageAllowedAnyStack(lowerStack, lowerPackageName) ==
    \/ lowerPackageName \in ALLOWED_BACKEND_PACKAGES
    \/ lowerPackageName \in ALLOWED_COMMON_PACKAGES

PackageAllowed(lowerStack, lowerPackageName) ==
    /\ lowerStack = <<"b", "a", "c", "k", "e", "n", "d">>
          => \/ lowerPackageName \in ALLOWED_BACKEND_PACKAGES
             \/ lowerPackageName \in ALLOWED_COMMON_PACKAGES
    /\ lowerStack = <<"f", "r", "o", "n", "t", "e", "n", "d">>
          => lowerPackageName \in ALLOWED_COMMON_PACKAGES

(***************************************************************************)
(* The length rule of validateLogParams: message.length > 48.              *)
(***************************************************************************)
MessageTooLongInclusive(message) == Len(message) >= MAX_MESSAGE_LENGTH

MessageTooLong(message) == Len(message) > MAX_MESSAGE_LENGTH

(***************************************************************************)
(* Logger.validateLogParams: "ok" when it returns true, otherwise the      *)
(* error it throws.  toLowerCase of a value that is no string throws a     *)
(* TypeError before any rule is looked at.                                 *)
(***************************************************************************)
validateLogParamsCaseSensitive(stack, level, packageName, message) ==
    IF stack.type # "string" \/ level.type # "string" \/ packageName.type # "string"
    THEN "TypeError"
    ELSE IF stack.chars \notin ALLOWED_STACKS THEN "InvalidStack"
    ELSE IF level.chars \notin ALLOWED_LEVELS THEN "InvalidLevel"
    ELSE IF ~PackageAllowed(stack.chars, packageName.chars) THEN "InvalidPackage"
    ELSE IF message.type # "string" THEN "InvalidMessage"
    ELSE IF Len(trim(message.chars)) = 0 THEN "InvalidMessage"
    ELSE IF MessageTooLong(message.chars) THEN "InvalidMessage"
    ELSE "ok"

validateLogParamsMessageFirst(stack, level, packageName, message) ==
    IF stack.type # "string" \/ level.type # "string" \/ packageName.type # "string"
    THEN "TypeError"
    ELSE LET lowerStack == toLowerCase(stack.chars)
             lowerLevel == toLowerCase(level.chars)
             lowerPackageName == toLowerCase(packageName.chars)
         IN  IF message.type # "string" THEN "InvalidMessage"
             ELSE IF Len(trim(message.chars)) = 0 THEN "InvalidMessage"
             ELSE IF MessageTooLong(message.chars) THEN "InvalidMessage"
             ELSE IF lowerStack \notin ALLOWED_STACKS THEN "InvalidStack"
             ELSE IF lowerLevel \notin ALLOWED_LEVELS THEN "InvalidLevel"
             ELSE IF ~PackageAllowed(lowerStack, lowerPackageName) THEN "InvalidPackage"
             ELSE "ok"

validateLogParams(stack, level, packageName, message) ==
    IF stack.type # "string" \/ level.type # "string" \/ packageName.type # "string"
    THEN "TypeError"
    ELSE LET lowerStack == toLowerCase(stack.chars)
             lowerLevel == toLowerCase(level.chars)
             lowerPackageName == toLowerCase(packageName.chars)
         IN  IF lowerStack \notin ALLOWED_STACKS THEN "InvalidStack"
             ELSE IF lowerLevel \notin ALLOWED_LEVELS THEN "InvalidLevel"
             ELSE IF ~PackageAllowed(lowerStack, lowerPackageName) THEN "InvalidPackage"
             ELSE IF message.type # "string" THEN "InvalidMessage"
             ELSE IF Len(trim(message.chars)) = 0 THEN "InvalidMessage"
             ELSE IF MessageTooLong(message.chars) THEN "InvalidMessage"
             ELSE "ok"

(***************************************************************************)
(* Inputs of the model.                                                    *)
(***************************************************************************)
Event(stack, level, packageName, message) ==
    [stack |-> stack, level |-> level, packageName |-> packageName, message |-> message]

DbConnectFailed ==
    <<"D", "B", " ", "c", "o", "n", "n", "e", "c", "t", " ", "f", "a", "i", "l", "e", "d">>

\* The events a caller passes to Log: two valid ones (one in mixed case) and
\* one for every way validateLogParams throws.
Events ==
    { Event(Str(<<"b", "a", "c", "k", "e", "n", "d">>), Str(<<"e", "r", "r", "o", "r">>),
            Str(<<"s", "e", "r", "v", "i", "c", "e">>), Str(DbConnectFailed)),
      Event(Str(<<"B", "a", "c", "k", "e", "n", "d">>), Str(<<"W", "A", "R", "N">>),
            Str(<<"A", "u", "t", "h">>), Str(Repeat("x", MAX_MESSAGE_LENGTH))),
      Event(Str(<<"s", "e", "r", "v", "e", "r">>), Str(<<"i", "n", "f", "o">>),
            Str(<<"c", "o", "n", "f", "i", "g">>), Str(Repeat("x", MAX_MESSAGE_LENGTH + 1))),
      Event(Str(<<"f", "r", "o", "n", "t", "e", "n", "d">>), Str(<<"f", "a", "t", "a", "l">>),
            Str(<<"r", "e", "p", "o", "s", "i", "t", "o", "r", "y">>), Str(DbConnectFailed)),
      Event(Str(<<"b", "a", "c", "k", "e", "n", "d">>), Str(<<"d", "e", "b", "u", "g">>),
            Str(<<"r", "o", "u", "t", "e">>), Str(<<" ", " ">>)),
      Event(Undefined, Str(<<"i", "n", "f", "o">>),
            Str(<<"c", "o", "n", "f", "i", "g">>), Str(DbConnectFailed)) }

\* The events of the concurrent specification: a valid and an invalid one.
RaceEvents ==
    { Event(Str(<<"b", "a", "c", "k", "e", "n", "d">>), Str(<<"e", "r", "r", "o", "r">>),
            Str(<<"s", "e", "r", "v", "i", "c", "e">>), Str(DbConnectFailed)),
      Event(Str(<<"s", "e", "r", "v", "e", "r">>), Str(<<"i", "n", "f", "o">>),
            Str(<<"c", "o", "n", "f", "i", "g">>), Str(DbConnectFailed)) }

\* The arguments the validator is exercised with: every taxonomy value, the
\* same in upper and mixed case, values outside the taxonomy, messages at
\* and around the limit, and values that are no strings; every stack with
\* every level, every stack with every package and message, and an invalid
\* level with valid and invalid packages and messages.
CheckStacks ==
    { Str(<<"b", "a", "c", "k", "e", "n", "d">>), Str(<<"B", "A", "C", "K", "E", "N", "D">>),
      Str(<<"F", "r", "o", "n", "t", "e", "n", "d">>), Str(<<"s", "e", "r", "v", "e", "r">>),
      Undefined }
CheckLevels ==
    {Str(l) : l \in ALLOWED_LEVELS} \cup
    { Str(<<"E", "r", "r", "o", "r">>), Str(<<"v", "e", "r", "b", "o", "s", "e">>) }
CheckPackages ==
    {Str(p) : p \in ALLOWED_BACKEND_PACKAGES \cup ALLOWED_COMMON_PACKAGES} \cup
    { Str(<<"R", "e", "p", "o", "s", "i", "t", "o", "r", "y">>), Str(<<"C", "O", "N", "F", "I", "G">>),
      Str(<<"a", "p", "i">>) }
CheckMessages ==
    { Str(DbConnectFailed), Str(Repeat("x", MAX_MESSAGE_LENGTH)),
      Str(Repeat("x", MAX_MESSAGE_LENGTH + 1)), Str(<<>>), Str(<<" ", "\t", " ">>), Undefined }
CheckEvents ==
    { Event(st, lv, Str(<<"c", "o", "n", "f", "i", "g">>), Str(DbConnectFailed)) :
          st \in CheckStacks, lv \in CheckLevels } \cup
    { Event(st, Str(<<"e", "r", "r", "o", "r">>), pk, msg) :
          st \in CheckStacks, pk \in CheckPackages, msg \in CheckMessages } \cup
    { Event(st, Str(<<"v", "e", "r", "b", "o", "s", "e">>), pk, msg) :
          st \in { Str(<<"b", "a", "c", "k", "e", "n", "d">>),
                   Str(<<"F", "r", "o", "n", "t", "e", "n", "d">>) },
          pk \in { Str(<<"a", "p", "i">>),
                   Str(<<"r", "e", "p", "o", "s", "i", "t", "o", "r", "y">>) },
          msg \in { Str(DbConnectFailed), Str(Repeat("x", MAX_MESSAGE_LENGTH + 1)) } }

NoEvent == [none |-> TRUE]

\* new Logger(config): config.retries is undefined (0 here) or a number
Configs == 0..MaxRetries

\* process.env: the six credential fields, each set or missing ("")
EnvKeys == <<"email", "name", "rollNo", "accessCode", "clientID", "clientSecret">>
EnvSet == [k \in 1..Len(EnvKeys) |-> "set"]
Envs == {EnvSet} \cup {[EnvSet EXCEPT ![k] = ""] : k \in 1..Len(EnvKeys)}

\* What the endpoints can answer.
Statuses == {200, 201, 500}
Tokens == {"tok1", "tok2"}
LogIds == {"abc123", "def456"}
NoToken == "null"
BadJson == [json |-> "bad"]

\* expires_in is an absolute time: the server's clock plus a lifetime
Expiries(t) == {t + k * TickSeconds : k \in 1..MaxLifeSteps}

\* the authentication endpoint's bodies: no JSON, null, or an object whose
\* fields access_token and expires_in may be missing ("" and 0)
AuthBodies(t) ==
    {BadJson, Null} \cup
    {[json |-> "object", access_token |-> tok, expires_in |-> e] :
        tok \in Tokens \cup {""}, e \in Expiries(t) \cup {0}}

\* the logging endpoint's bodies: no JSON, null, or an object with or
\* without the field logID ("" stands for no such field)
LogBodies ==
    {BadJson, Null} \cup {[json |-> "object", logID |-> id] : id \in LogIds \cup {""}}

Responses(bodies) ==
    {[kind |-> "response", status |-> st, body |-> b] : st \in Statuses, b \in bodies}
        \cup {[kind |-> "error"], [kind |-> "timeout"]}

\* The answers of the concurrent specification: a good one or a network error.
RaceAuthResponses(t) ==
    {[kind |-> "response", status |-> 200,
      body |-> [json |-> "object", access_token |-> tok, expires_in |-> e]] :
        tok \in Tokens, e \in {t + TickSeconds, t + MaxLifeSteps * TickSeconds}}
        \cup {[kind |-> "error"]}

RaceLogResponses ==
    {[kind |-> "response", status |-> 201, body |-> [json |-> "object", logID |-> "abc123"]],
     [kind |-> "error"]}

\* The answers of the validator's specification: one good one or an error.
CheckAuthResponses(t) ==
    {[kind |-> "response", status |-> 200,
      body |-> [json |-> "object", access_token |-> "tok1",
                expires_in |-> t + MaxLifeSteps * TickSeconds]],
     [kind |-> "error"]}

\* Answers in which each token comes with an expiry of its own: the nearest
\* one for the first token, the farthest one for the second.
PairAuthResponses(t) ==
    {[kind |-> "response", status |-> 200,
      body |-> [json |-> "object", access_token |-> "tok1",
                expires_in |-> t + TickSeconds]],
     [kind |-> "response", status |-> 200,
      body |-> [json |-> "object", access_token |-> "tok2",
                expires_in |-> t + MaxLifeSteps * TickSeconds]],
     [kind |-> "error"]}

(***************************************************************************)
(* State.                                                                  *)
(***************************************************************************)
VARIABLES
    currentToken,       \* auth.js:18
    tokenExpiryTime,    \* auth.js:19
    now,                \* Math.floor(Date.now() / 1000)
    config,             \* config.retries as passed to the constructor, 0 if none
    retries,            \* this.retries
    env,                \* process.env, the six credential fields
    calls,              \* the Log calls: position, arguments and locals
    inflight            \* the calls whose authentication request is pending,
                        \* in the order the requests were issued

vars == <<currentToken, tokenExpiryTime, now, config, retries, env, calls, inflight>>

Resolve(v) == [state |-> "fulfilled", value |-> v]
Reject(e) == [state |-> "rejected", reason |-> e]

Pending == [state |-> "pending"]
NoPost == [none |-> TRUE]
NoAnswer == [kind |-> "none"]

(***************************************************************************)
(* A Log call.  pc is where it is suspended: "auth" in auth.js:79, "post"  *)
(* in logger.js:196, "backoff" in logger.js:203.  attempt, token and       *)
(* error are the locals of #logWithRetry; received is tokenResponse's      *)
(* access_token; lastPost is the POST in flight; inner and result are the  *)
(* promises of #logWithRetry and of Log.  validations and delays count the *)
(* runs of validateLogParams and the timers set; answer is what the        *)
(* logging endpoint answered in this attempt and authFailure the answer    *)
(* that made getAuthToken throw in it; overtaken says that a request       *)
(* issued after this call's pending one has written the cache; via is the *)
(* method the caller invoked, with its arguments when it is not Log.       *)
(***************************************************************************)
ViaLog == [method |-> "Log"]

IdleCall ==
    [pc |-> "idle", ev |-> NoEvent, attempt |-> 0, validations |-> 0, delays |-> <<>>,
     token |-> NoToken, received |-> NoToken, overtaken |-> FALSE,
     lastPost |-> NoPost, answer |-> NoAnswer, authFailure |-> NoAnswer,
     error |-> "", inner |-> Pending,
     result |-> Pending, via |-> ViaLog]

\* a constructor that does not look at its config
ConstructorIgnoresConfig(configRetries) == DEFAULT_RETRIES

\* Logger.constructor (logger.js:33)
Constructor(configRetries) ==
    IF configRetries # 0 THEN configRetries ELSE DEFAULT_RETRIES

\* JavaScript truthiness of a string or null, and of a number
Truthy(v) == v \notin {NoToken, ""}
TruthyNumber(n) == n # 0

InitWith(callers, envs, configs) ==
    /\ currentToken = NoToken
    /\ tokenExpiryTime = 0
    /\ now = StartTime
    /\ config \in configs
    /\ retries = Constructor(config)
    /\ env \in envs
    /\ calls = [c \in callers |-> IdleCall]
    /\ inflight = <<>>

\* One caller that awaits each Log call before the next.
Init == InitWith({1}, Envs, Configs)

\* NumCalls callers, each awaiting its own Log calls only.
InitRace == InitWith(Calls, {EnvSet}, 1..MaxRaceRetries)

\* Log with a catch block that throws the error on
LogRethrow(inner) ==
    IF inner.state = "fulfilled"
    THEN IF inner.value = Null THEN Resolve(Null) ELSE Resolve(inner.value)
    ELSE Reject(inner.reason)

\* Log returning a new object {logId} in place of the response
LogRenamed(inner) ==
    IF inner.state = "fulfilled"
    THEN IF inner.value = Null THEN Resolve(Null)
         ELSE Resolve([logId |-> inner.value.logID])
    ELSE Resolve(Null)

(***************************************************************************)
(* Logger.Log (logger.js:224-235): what the promise Log returns settles    *)
(* to, given what the promise of #logWithRetry settled to.  Reading        *)
(* response.logID of a null response throws a TypeError inside the try.    *)
(***************************************************************************)
Log(inner) ==
    IF inner.state = "fulfilled"
    THEN IF inner.value = Null THEN Resolve(Null) ELSE Resolve(inner.value)
    ELSE Resolve(Null)

\* the retry test off by one
RetryAllowedInclusive(attempt) == attempt <= retries

\* logger.js:200
RetryAllowed(attempt) == attempt < retries

\* a delay that does not grow with the attempt
BackoffDelayFlat(attempt) == BACKOFF_BASE_MS

\* logger.js:203
BackoffDelay(attempt) == BACKOFF_BASE_MS * attempt

\* a catch block that gives up at once when it was getAuthToken that threw
CatchAuthFatal(r, error) ==
    IF /\ RetryAllowed(r.attempt)
       /\ r.pc # "auth"
       /\ error # "Authentication failed: Missing environment variable"
    THEN [r EXCEPT !.pc = "backoff", !.error = error,
                   !.delays = Append(@, BackoffDelay(r.attempt))]
    ELSE [r EXCEPT !.pc = "done", !.error = error, !.inner = Reject(error),
                   !.result = Log(Reject(error))]

\* a catch block that counts the attempts of all calls together
CatchSharedAttempts(r, error) ==
    IF \A d \in DOMAIN calls : RetryAllowed(calls[d].attempt)
    THEN [r EXCEPT !.pc = "backoff", !.error = error,
                   !.delays = Append(@, BackoffDelay(r.attempt))]
    ELSE [r EXCEPT !.pc = "done", !.error = error, !.inner = Reject(error),
                   !.result = Log(Reject(error))]

\* The catch block of #logWithRetry (logger.js:198-211) for call record r.
Catch(r, error) ==
    IF RetryAllowed(r.attempt)
    THEN [r EXCEPT !.pc = "backoff", !.error = error,
                   !.delays = Append(@, BackoffDelay(r.attempt))]
    ELSE [r EXCEPT !.pc = "done", !.error = error, !.inner = Reject(error),
                   !.result = Log(Reject(error))]

\* a payload built from the arguments as they were passed
LogDataRaw(ev) ==
    [stack |-> ev.stack.chars, level |-> ev.level.chars,
     package |-> ev.packageName.chars, message |-> ev.message.chars]

\* logger.js:179-184
LogData(ev) ==
    [stack |-> toLowerCase(ev.stack.chars), level |-> toLowerCase(ev.level.chars),
     package |-> toLowerCase(ev.packageName.chars), message |-> ev.message.chars]

\* logger.js:189-196 and #makeLogApiCall up to req.end() (logger.js:102-157)
Post(r, token) ==
    IF ~Truthy(token)
    THEN Catch(r, "Failed to acquire authentication token for logging.")
    ELSE [r EXCEPT !.pc = "post", !.token = token,
                   !.lastPost = [body |-> LogData(r.ev),
                                 authorization |-> <<"Bearer", token>>]]

\* the cache test without the 60-second buffer
CacheHitNoBuffer(token, expiry, t) == Truthy(token) /\ expiry > t

\* auth.js:34
CacheHit(token, expiry, t) == Truthy(token) /\ expiry > t + EXPIRY_BUFFER

\* a check that looks at the first credential field only
MissingKeyFirstOnly(e) == IF ~Truthy(e[1]) THEN 1 ELSE 0

\* auth.js:52-56: the first credential field that is missing, 0 if none
MissingKey(e) ==
    IF \E k \in 1..Len(EnvKeys) : ~Truthy(e[k])
    THEN CHOOSE k \in 1..Len(EnvKeys) :
            ~Truthy(e[k]) /\ \A j \in 1..(k - 1) : Truthy(e[j])
    ELSE 0

\* #logWithRetry fetching the token before it validates
logWithRetryAuthFirst(r, attempt) ==
    LET r1 == [r EXCEPT !.attempt = attempt, !.validations = @ + 1,
                        !.token = NoToken, !.received = NoToken, !.error = "",
                        !.answer = NoAnswer, !.authFailure = NoAnswer]
        v == validateLogParams(r.ev.stack, r.ev.level, r.ev.packageName, r.ev.message)
    IN  IF ~CacheHit(currentToken, tokenExpiryTime, now)
        THEN IF MissingKey(env) # 0
             THEN Catch(r1, "Authentication failed: Missing environment variable")
             ELSE [r1 EXCEPT !.pc = "auth"]
        ELSE IF v # "ok" THEN Catch(r1, v)
        ELSE Post(r1, currentToken)

\* #logWithRetry posting a retry with the token of the attempt before
logWithRetryReuseToken(r, attempt) ==
    LET r1 == [r EXCEPT !.attempt = attempt, !.validations = @ + 1,
                        !.token = NoToken, !.received = NoToken, !.error = "",
                        !.answer = NoAnswer, !.authFailure = NoAnswer]
        v == validateLogParams(r.ev.stack, r.ev.level, r.ev.packageName, r.ev.message)
    IN  IF v # "ok" THEN Catch(r1, v)
        ELSE IF Truthy(r.token) THEN Post(r1, r.token)
        ELSE IF CacheHit(currentToken, tokenExpiryTime, now) THEN Post(r1, currentToken)
        ELSE IF MissingKey(env) # 0
             THEN Catch(r1, "Authentication failed: Missing environment variable")
        ELSE [r1 EXCEPT !.pc = "auth"]

(***************************************************************************)
(* One invocation of #logWithRetry with the given attempt number, up to    *)
(* its first suspension (logger.js:173-197, auth.js:30-108): validate,     *)
(* then getAuthToken, which answers from the cache, fails on a missing     *)
(* credential field or issues the authentication request.                  *)
(***************************************************************************)
logWithRetry(r, attempt) ==
    LET r1 == [r EXCEPT !.attempt = attempt, !.validations = @ + 1,
                        !.token = NoToken, !.received = NoToken, !.error = "",
                        !.answer = NoAnswer, !.authFailure = NoAnswer]
        v == validateLogParams(r.ev.stack, r.ev.level, r.ev.packageName, r.ev.message)
    IN  IF v # "ok" THEN Catch(r1, v)
        ELSE IF CacheHit(currentToken, tokenExpiryTime, now) THEN Post(r1, currentToken)
        ELSE IF MissingKey(env) # 0
             THEN Catch(r1, "Authentication failed: Missing environment variable")
        ELSE [r1 EXCEPT !.pc = "auth"]

\* the pending authentication requests after call c ran to its suspension
Issued(c) ==
    IF calls'[c].pc = "auth" THEN Append(inflight, c) ELSE inflight

\* The caller invokes Log(stack, level, packageName, message).
CallLog(c, ev) ==
    /\ calls[c].pc \in {"idle", "done"}
    /\ calls' = [calls EXCEPT ![c] = logWithRetry([IdleCall EXCEPT !.ev = ev], 1)]
    /\ inflight' = Issued(c)
    /\ UNCHANGED <<currentToken, tokenExpiryTime, now, config, retries, env>>

\* a backoff promise that nothing resolves: the call stays where it is
TimerNeverResolves(c) ==
    /\ calls[c].pc = "backoff"
    /\ UNCHANGED <<currentToken, tokenExpiryTime, now, config, retries, env, calls, inflight>>

\* a fatal method that logs with the level "error"
ConvenienceFatalAsError(method, stack, packageName, message) ==
    Event(stack,
          CASE method = "debug" -> Str(<<"d", "e", "b", "u", "g">>)
            [] method = "info" -> Str(<<"i", "n", "f", "o">>)
            [] method = "warn" -> Str(<<"w", "a", "r", "n">>)
            [] method = "error" -> Str(<<"e", "r", "r", "o", "r">>)
            [] method = "fatal" -> Str(<<"e", "r", "r", "o", "r">>),
          packageName, message)

\* logger.js:239-243: the arguments debug, info, warn, error and fatal pass
\* to Log
Convenience(method, stack, packageName, message) ==
    Event(stack,
          CASE method = "debug" -> Str(<<"d", "e", "b", "u", "g">>)
            [] method = "info" -> Str(<<"i", "n", "f", "o">>)
            [] method = "warn" -> Str(<<"w", "a", "r", "n">>)
            [] method = "error" -> Str(<<"e", "r", "r", "o", "r">>)
            [] method = "fatal" -> Str(<<"f", "a", "t", "a", "l">>),
          packageName, message)

\* The caller invokes one of debug, info, warn, error and fatal, which
\* returns this.Log(stack, <level>, packageName, message).
CallMethod(c, method, stack, packageName, message) ==
    /\ calls[c].pc \in {"idle", "done"}
    /\ calls' = [calls EXCEPT ![c] =
          logWithRetry([IdleCall EXCEPT
                           !.ev = Convenience(method, stack, packageName, message),
                           !.via = [method |-> method, stack |-> stack,
                                    packageName |-> packageName, message |-> message]],
                       1)]
    /\ inflight' = Issued(c)
    /\ UNCHANGED <<currentToken, tokenExpiryTime, now, config, retries, env>>

\* The backoff timer of logger.js:203 fires; logger.js:205 re-invokes.
TimerFired(c) ==
    /\ calls[c].pc = "backoff"
    /\ calls' = [calls EXCEPT ![c] = logWithRetry(@, @.attempt + 1)]
    /\ inflight' = Issued(c)
    /\ UNCHANGED <<currentToken, tokenExpiryTime, now, config, retries, env>>

\* The promise of auth.js:79-108
AuthExchange(resp) ==
    IF resp.kind = "error" THEN Reject("Auth request failed")
    ELSE IF resp.kind = "timeout" THEN Reject("Auth request timeout")
    ELSE IF resp.body = BadJson THEN Reject("Failed to parse auth response")
    ELSE IF resp.status \in {200, 201} THEN Resolve(resp.body)
    ELSE Reject("Auth API failed with status")

\* auth.js:111
CredentialPresent(tokenResponse) ==
    /\ tokenResponse # Null
    /\ Truthy(tokenResponse.access_token)
    /\ TruthyNumber(tokenResponse.expires_in)

\* a refresh that keeps a credential another refresh has cached meanwhile
StoreCredentialKeepFirst(tokenResponse) ==
    IF Truthy(currentToken)
    THEN [currentToken |-> currentToken, tokenExpiryTime |-> tokenExpiryTime,
          returned |-> currentToken]
    ELSE [currentToken |-> tokenResponse.access_token,
          tokenExpiryTime |-> tokenResponse.expires_in,
          returned |-> tokenResponse.access_token]

\* a refresh that never lets the cached expiry go back
StoreCredentialLatestExpiry(tokenResponse) ==
    [currentToken |-> tokenResponse.access_token,
     tokenExpiryTime |-> IF tokenResponse.expires_in > tokenExpiryTime
                         THEN tokenResponse.expires_in
                         ELSE tokenExpiryTime,
     returned |-> tokenResponse.access_token]

\* auth.js:112-115: the cache as written and the token returned
StoreCredential(tokenResponse) ==
    [currentToken |-> tokenResponse.access_token,
     tokenExpiryTime |-> tokenResponse.expires_in,
     returned |-> tokenResponse.access_token]

Without(q, c) == SelectSeq(q, LAMBDA d : d # c)

\* the calls whose pending request was issued before that of call c
IssuedBefore(c) ==
    {inflight[i] : i \in {j \in 1..Len(inflight) :
                            \E k \in (j + 1)..Len(inflight) : inflight[k] = c}}

\* getAuthToken dropping the cached credential when a refresh fails
AuthResponseClearsOnFailure(c, resp) ==
    /\ calls[c].pc = "auth"
    /\ inflight' = Without(inflight, c)
    /\ LET out == AuthExchange(resp)
           r == [calls[c] EXCEPT !.overtaken = FALSE]
       IN  IF out.state = "fulfilled" /\ CredentialPresent(out.value)
           THEN LET st == StoreCredential(out.value)
                IN  /\ currentToken' = st.currentToken
                    /\ tokenExpiryTime' = st.tokenExpiryTime
                    /\ calls' = [d \in DOMAIN calls |->
                          IF d = c
                          THEN Post([r EXCEPT !.received = out.value.access_token],
                                    st.returned)
                          ELSE IF d \in IssuedBefore(c)
                               THEN [calls[d] EXCEPT !.overtaken = TRUE]
                               ELSE calls[d]]
           ELSE /\ calls' = [calls EXCEPT ![c] =
                      Catch([r EXCEPT !.authFailure = resp],
                            IF out.state = "fulfilled"
                            THEN "Authentication failed: Auth API response missing"
                            ELSE "Authentication failed: " \o out.reason)]
                /\ currentToken' = NoToken
                /\ tokenExpiryTime' = 0
    /\ UNCHANGED <<now, config, retries, env>>

\* The authentication request of call c is answered (auth.js:79-126), and
\* #logWithRetry goes on to the POST or to its catch block.
AuthResponse(c, resp) ==
    /\ calls[c].pc = "auth"
    /\ inflight' = Without(inflight, c)
    /\ LET out == AuthExchange(resp)
           r == [calls[c] EXCEPT !.overtaken = FALSE]
       IN  IF out.state = "fulfilled" /\ CredentialPresent(out.value)
           THEN LET st == StoreCredential(out.value)
                IN  /\ currentToken' = st.currentToken
                    /\ tokenExpiryTime' = st.tokenExpiryTime
                    /\ calls' = [d \in DOMAIN calls |->
                          IF d = c
                          THEN Post([r EXCEPT !.received = out.value.access_token],
                                    st.returned)
                          ELSE IF d \in IssuedBefore(c)
                               THEN [calls[d] EXCEPT !.overtaken = TRUE]
                               ELSE calls[d]]
           ELSE /\ calls' = [calls EXCEPT ![c] =
                      Catch([r EXCEPT !.authFailure = resp],
                            IF out.state = "fulfilled"
                            THEN "Authentication failed: Auth API response missing"
                            ELSE "Authentication failed: " \o out.reason)]
                /\ UNCHANGED <<currentToken, tokenExpiryTime>>
    /\ UNCHANGED <<now, config, retries, env>>

\* The promise of #makeLogApiCall (logger.js:125-154)
LogExchange(resp) ==
    IF resp.kind = "error" THEN Reject("Log API request failed")
    ELSE IF resp.kind = "timeout" THEN Reject("Log API request timeout")
    ELSE IF resp.body = BadJson THEN Reject("Failed to parse log API response")
    ELSE IF resp.status \in {200, 201} THEN Resolve(resp.body)
    ELSE Reject("Log API call failed with status")

\* The POST of call c is answered (logger.js:196-197, then 198-211 or Log).
LogResponse(c, resp) ==
    /\ calls[c].pc = "post"
    /\ LET out == LogExchange(resp)
           r == [calls[c] EXCEPT !.lastPost = NoPost, !.answer = resp]
       IN  calls' = [calls EXCEPT ![c] =
               IF out.state = "fulfilled"
               THEN [r EXCEPT !.pc = "done", !.inner = out, !.result = Log(out)]
               ELSE Catch(r, out.reason)]
    /\ UNCHANGED <<currentToken, tokenExpiryTime, now, config, retries, env, inflight>>

\* Time passes.
Tick ==
    /\ now < MaxTime
    /\ now' = now + TickSeconds
    /\ UNCHANGED <<currentToken, tokenExpiryTime, config, retries, env, calls, inflight>>

Next ==
    \/ \E c \in DOMAIN calls, ev \in Events : CallLog(c, ev)
    \/ \E c \in DOMAIN calls : TimerFired(c)
    \/ \E c \in DOMAIN calls, resp \in Responses(AuthBodies(now)) : AuthResponse(c, resp)
    \/ \E c \in DOMAIN calls, resp \in Responses(LogBodies) : LogResponse(c, resp)
    \/ Tick

NextRace ==
    \/ \E c \in DOMAIN calls, ev \in RaceEvents : CallLog(c, ev)
    \/ \E c \in DOMAIN calls : TimerFired(c)
    \/ \E c \in DOMAIN calls, resp \in RaceAuthResponses(now) : AuthResponse(c, resp)
    \/ \E c \in DOMAIN calls, resp \in RaceLogResponses : LogResponse(c, resp)

\* one caller, every input and every answer
Spec == Init /\ [][Next]_vars

\* concurrent callers
SpecRace == InitRace /\ [][NextRace]_vars

\* The validator on its own: one caller of a logger built with retries: 1,
\* so that each Log call validates its arguments exactly once, and every
\* combination of the arguments in CheckEvents.
InitCheck == InitWith({1}, {EnvSet}, {1})

NextCheck ==
    \/ \E c \in DOMAIN calls, ev \in CheckEvents : CallLog(c, ev)
    \/ \E c \in DOMAIN calls, resp \in CheckAuthResponses(now) : AuthResponse(c, resp)
    \/ \E c \in DOMAIN calls, resp \in RaceLogResponses : LogResponse(c, resp)

SpecCheck == InitCheck /\ [][NextCheck]_vars

\* Concurrent callers whose refreshes are answered with PairAuthResponses.
NextPair ==
    \/ \E c \in DOMAIN calls, ev \in RaceEvents : CallLog(c, ev)
    \/ \E c \in DOMAIN calls : TimerFired(c)
    \/ \E c \in DOMAIN calls, resp \in PairAuthResponses(now) : AuthResponse(c, resp)
    \/ \E c \in DOMAIN calls, resp \in RaceLogResponses : LogResponse(c, resp)

SpecPair == InitRace /\ [][NextPair]_vars

\* One caller that uses Log and the five convenience methods, with the
\* arguments of Events.
Methods == {"debug", "info", "warn", "error", "fatal"}

InitWrap == InitWith({1}, {EnvSet}, 1..MaxRaceRetries)

NextWrap ==
    \/ \E c \in DOMAIN calls, ev \in Events : CallLog(c, ev)
    \/ \E c \in DOMAIN calls, method \in Methods, ev \in Events :
          CallMethod(c, method, ev.stack, ev.packageName, ev.message)
    \/ \E c \in DOMAIN calls : TimerFired(c)
    \/ \E c \in DOMAIN calls, resp \in CheckAuthResponses(now) : AuthResponse(c, resp)
    \/ \E c \in DOMAIN calls, resp \in RaceLogResponses : LogResponse(c, resp)

SpecWrap == InitWrap /\ [][NextWrap]_vars

\* One caller under the scheduling of the event loop: a timer that was set
\* fires, and a request that was sent gets its 'end', 'error' or 'timeout'
\* event (both requests carry a timeout: auth.js:75, logger.js:123).
Fairness ==
    /\ WF_vars(TimerFired(1))
    /\ WF_vars(\E resp \in Responses(AuthBodies(now)) : AuthResponse(1, resp))
    /\ WF_vars(\E resp \in Responses(LogBodies) : LogResponse(1, resp))

SpecFair == Init /\ [][Next]_vars /\ Fairness

(***************************************************************************)
(* Properties.                                                             *)
(***************************************************************************)
Started(r) == r.ev # NoEvent
ValidEvent(r) ==
    Started(r) /\ validateLogParams(r.ev.stack, r.ev.level, r.ev.packageName,
                                    r.ev.message) = "ok"
InvalidEvent(r) == Started(r) /\ ~ValidEvent(r)

Succeeded(r) == r.pc = "done" /\ r.inner.state = "fulfilled"
Exhausted(r) == r.pc = "done" /\ r.inner.state = "rejected"

\* call c runs #logWithRetry (a new Log call or a fired timer) in this step
Invokes(c) == calls[c].pc \in {"idle", "done", "backoff"} /\ calls'[c] # calls[c]
\* call c gets an answer to its pending request in this step
Answered(c) == calls[c].pc \in {"auth", "post"} /\ calls'[c].pc # calls[c].pc

Cache == <<currentToken, tokenExpiryTime>>

\* C1: a call whose event fails validation returns at once: its attempt
\* counter stays at 1, it waits no backoff delay and validates only once.
C1_ValidationFailsAtOnce ==
    \A c \in DOMAIN calls :
        InvalidEvent(calls[c]) =>
            /\ calls[c].attempt = 1
            /\ calls[c].delays = <<>>
            /\ calls[c].validations = 1

C3_ExhaustsAtCeiling ==
    \A c \in DOMAIN calls :
        /\ calls[c].attempt <= retries
        /\ Len(calls[c].delays) <= retries - 1
        /\ (Exhausted(calls[c]) /\ ValidEvent(calls[c])) =>
              /\ calls[c].attempt = retries
              /\ calls[c].validations = retries
              /\ Len(calls[c].delays) = retries - 1
              /\ calls[c].inner.reason = calls[c].error
              /\ calls[c].result = Resolve(Null)

C3_Witness ==
    \E c \in DOMAIN calls :
        /\ Exhausted(calls[c])
        /\ ValidEvent(calls[c])
        /\ retries = DEFAULT_RETRIES
        /\ calls[c].attempt = DEFAULT_RETRIES
        /\ Len(calls[c].delays) = DEFAULT_RETRIES - 1
        /\ calls[c].error = "Log API call failed with status"

\* the delays after failed attempts 1 .. k - 1
LinearDelays(k) == [n \in 1..(k - 1) |-> BACKOFF_BASE_MS * n]

C5_SuccessNeedsLogId ==
    \A c \in DOMAIN calls :
        Succeeded(calls[c]) =>
            /\ calls[c].answer.kind = "response"
            /\ calls[c].answer.status \in {200, 201}
            /\ calls[c].answer.body \notin {BadJson, Null}
            /\ Truthy(calls[c].answer.body.logID)

\* the call of the scenario: send("backend", "error", "service", "DB connect failed")
ScenarioEvent ==
    Event(Str(<<"b", "a", "c", "k", "e", "n", "d">>), Str(<<"e", "r", "r", "o", "r">>),
          Str(<<"s", "e", "r", "v", "i", "c", "e">>), Str(DbConnectFailed))

\* C6 as stated: on success the result is {logId: <the identifier the server
\* assigned>}.
C6_ResultIsLogIdObject ==
    \A c \in DOMAIN calls :
        (Succeeded(calls[c]) /\ calls[c].answer.body # Null) =>
            /\ "logId" \in DOMAIN calls[c].result.value
            /\ calls[c].result.value.logId = calls[c].answer.body.logID

\* C6 amended: on success the result is the parsed body of the answer to the
\* successful attempt, unchanged: the identifier is its field logID.
C6_ResultIsResponseBody ==
    \A c \in DOMAIN calls :
        (Succeeded(calls[c]) /\ calls[c].answer.body # Null) =>
            /\ calls[c].answer.status \in {200, 201}
            /\ calls[c].result = Resolve(calls[c].answer.body)
            /\ calls[c].result.value.logID = calls[c].answer.body.logID

C6_Witness ==
    \E c \in DOMAIN calls :
        /\ Succeeded(calls[c])
        /\ calls[c].ev = ScenarioEvent
        /\ calls[c].token = "tok1"
        /\ calls[c].answer.status = 201
        /\ calls[c].result = Resolve([json |-> "object", logID |-> "abc123"])

\* the cached token may be reused at time t
Fresh(t) == currentToken # NoToken /\ tokenExpiryTime > t + 60

\* call c issues exactly one authentication request in this step
IssuesOne(c) ==
    /\ calls'[c].pc = "auth"
    /\ inflight' = Append(inflight, c)
    /\ Len(SelectSeq(inflight', LAMBDA d : d = c)) = 1

\* C7 as stated: getAuthToken issues an authentication request if and only
\* if the cache is empty or the cached expiry is at most 60 s after now.
C7_RequestIffStale ==
    [][\A c \in DOMAIN calls :
          (Invokes(c) /\ ValidEvent(calls'[c])) => (IssuesOne(c) <=> ~Fresh(now))]_vars

\* C7 amended: with the six credential fields set, getAuthToken issues one
\* authentication request if and only if the cache is empty or the cached
\* expiry is at most 60 s after now; a fresh cached token is returned with
\* no request, and a failed request is not repeated within the call.
C7_RequestIffStaleWithCredentials ==
    [][\A c \in DOMAIN calls :
          /\ (Invokes(c) /\ ValidEvent(calls'[c]) /\ MissingKey(env) = 0) =>
                /\ IssuesOne(c) <=> ~Fresh(now)
                /\ Fresh(now) =>
                      /\ inflight' = inflight
                      /\ calls'[c].pc = "post"
                      /\ calls'[c].token = currentToken
          /\ (calls[c].pc = "auth" /\ Answered(c)) =>
                /\ inflight' = SelectSeq(inflight, LAMBDA d : d # c)
                /\ calls'[c].pc \in {"post", "backoff", "done"}]_vars

C7_Witness ==
    \E c \in DOMAIN calls :
        /\ calls[c].pc = "post"
        /\ calls[c].received = NoToken
        /\ calls[c].token = currentToken
        /\ tokenExpiryTime > now + 60
        /\ inflight = <<>>

\* C8: the answer to an authentication request never replaces a credential
\* that a request issued after it has written.
C8_NoStaleOverwrite ==
    [][\A c \in DOMAIN calls :
          (calls[c].pc = "auth" /\ calls[c].overtaken /\ Answered(c)) =>
              Cache' = Cache]_vars

\* C9: the calls that wait for an authentication answer have one pending
\* request each; a call that refreshed posts with the token of its own
\* answer; the cache changes only to the token of an answer just received.
C9_RedundantRefreshes ==
    [][/\ \A c \in DOMAIN calls :
            /\ calls'[c].pc = "auth" <=>
                  Len(SelectSeq(inflight', LAMBDA d : d = c)) = 1
            /\ (calls'[c].pc = "post" /\ calls'[c].received # NoToken) =>
                  /\ calls'[c].token = calls'[c].received
                  /\ calls'[c].lastPost.authorization = <<"Bearer", calls'[c].received>>
            /\ (calls[c].pc = "auth" /\ calls'[c].received # NoToken) =>
                  /\ calls'[c].pc = "post"
                  /\ currentToken' = calls'[c].received
       /\ Len(inflight') = Cardinality({c \in DOMAIN calls : calls'[c].pc = "auth"})
       /\ Cache' # Cache =>
             \E c \in DOMAIN calls :
                 /\ calls[c].pc = "auth"
                 /\ calls'[c].received = currentToken']_vars

\* two calls raced past the expiry check: d's request was issued first and was
\* still pending when c's answer wrote the cache; both post with their own token
C9_Witness ==
    \E c, d \in DOMAIN calls :
        /\ c # d
        /\ calls[c].pc = "post" /\ calls[c].received = "tok1"
        /\ calls[d].pc = "post" /\ calls[d].received = "tok2"
        /\ calls[c].attempt = 1 /\ calls[d].attempt = 1
        /\ calls[c].token = "tok1" /\ calls[d].token = "tok2"
        /\ currentToken = "tok2"
        /\ tokenExpiryTime = StartTime + TickSeconds

\* C10: a call whose event fails validation issues no authentication
\* request and no POST and leaves the cached credential as it is.
C10_InvalidEventNoNetwork ==
    [][\A c \in DOMAIN calls :
          (InvalidEvent(calls'[c]) /\ calls'[c] # calls[c]) =>
              /\ calls'[c].pc \in {"backoff", "done"}
              /\ calls'[c].lastPost = NoPost
              /\ calls'[c].token = NoToken
              /\ inflight' = inflight
              /\ Cache' = Cache]_vars

C10_Witness ==
    \E c \in DOMAIN calls :
        /\ InvalidEvent(calls[c])
        /\ calls[c].pc = "done"
        /\ calls[c].validations = DEFAULT_RETRIES
        /\ currentToken = "tok2"
        /\ tokenExpiryTime > now + EXPIRY_BUFFER

\* C11: an attempt validates, then authenticates, then posts.  A call waits
\* for the authentication endpoint only with an event that this attempt has
\* validated.  A POST is sent only in such an attempt and only with a
\* non-empty token that getAuthToken returned in this very attempt: the
\* cached one, found fresh when the attempt began, or the one of the answer
\* the attempt waited for, and never the token of an earlier attempt.  Its
\* Authorization header is "Bearer" and exactly that token.
C11_ValidateAuthenticatePost ==
    [][\A c \in DOMAIN calls :
          /\ (calls'[c] # calls[c] /\ calls'[c].pc = "auth") =>
                /\ Invokes(c)
                /\ ValidEvent(calls'[c])
                /\ calls'[c].validations = calls'[c].attempt
                /\ calls'[c].lastPost = NoPost
          /\ (calls'[c] # calls[c] /\ calls'[c].pc = "post") =>
                /\ ValidEvent(calls'[c])
                /\ calls'[c].validations = calls'[c].attempt
                /\ calls'[c].token \in Tokens
                /\ calls'[c].lastPost.authorization = <<"Bearer", calls'[c].token>>
                /\ \/ /\ Invokes(c)
                      /\ Fresh(now)
                      /\ calls'[c].token = currentToken
                      /\ calls'[c].received = NoToken
                   \/ /\ calls[c].pc = "auth"
                      /\ calls'[c].attempt = calls[c].attempt
                      /\ calls'[c].token = calls'[c].received
                      /\ calls'[c].token = currentToken']_vars

\* the second attempt of a call asked for a token again and posts with the
\* one it was given, not with the one of its first attempt
C11_Witness ==
    \E c \in DOMAIN calls :
        /\ calls[c].pc = "post"
        /\ calls[c].attempt = 2
        /\ calls[c].delays = <<BACKOFF_BASE_MS>>
        /\ calls[c].error = ""
        /\ calls[c].received = "tok2"
        /\ calls[c].lastPost.authorization = <<"Bearer", "tok2">>
        /\ calls[c].lastPost.body.level = <<"w", "a", "r", "n">>

\* call c's attempt ends in this step because getAuthToken threw: at once,
\* for a missing credential field, or on the answer to its request
TokenFailed(c) ==
    /\ ValidEvent(calls'[c])
    /\ calls'[c].pc \in {"backoff", "done"}
    /\ \/ Invokes(c)
       \/ calls[c].pc = "auth" /\ Answered(c)

\* call c's attempt ends in this step because the POST failed
PostFailed(c) ==
    /\ calls[c].pc = "post"
    /\ Answered(c)
    /\ calls'[c].error # ""

\* the timers call c had set before this step
DelaysBefore(c) == IF calls[c].pc = "done" THEN <<>> ELSE calls[c].delays

C13_ValidationErrorSurfaced ==
    \A c \in DOMAIN calls :
        (calls[c].pc = "done" /\ InvalidEvent(calls[c])) =>
            calls[c].result # Resolve(Null)

\* call c is inside Log: it waits for an answer or for its backoff timer
Running(r) == r.pc \in {"auth", "post", "backoff"}

\* call c has returned with exactly one of the three outcomes
Returned(r) ==
    /\ r.pc = "done"
    /\ Cardinality({o \in {"success", "validation failure", "exhaustion"} :
           \/ o = "success" /\ Succeeded(r) /\ ValidEvent(r)
           \/ o = "validation failure" /\ Exhausted(r) /\ InvalidEvent(r)
                 /\ r.error \in {"TypeError", "InvalidStack", "InvalidLevel",
                                 "InvalidPackage", "InvalidMessage"}
           \/ o = "exhaustion" /\ Exhausted(r) /\ ValidEvent(r)
                 /\ r.attempt = retries}) = 1

\* call c has left nothing behind: no request in flight, no promise pending
NothingPending(c) ==
    /\ calls[c].lastPost = NoPost
    /\ calls[c].inner # Pending
    /\ calls[c].result # Pending
    /\ \A i \in 1..Len(inflight) : inflight[i] # c

Verdict(r) ==
    IF r.error \in {"TypeError", "InvalidStack", "InvalidLevel", "InvalidPackage",
                    "InvalidMessage"}
    THEN r.error
    ELSE "ok"

\* stack, level and packageName are strings, as Log's contract has them
StringArgs(ev) ==
    ev.stack.type = "string" /\ ev.level.type = "string" /\ ev.packageName.type = "string"

\* C15: for string arguments the validator throws the stack error exactly
\* when the stack in lower case is neither "backend" nor "frontend"
\* ("BACKEND" passes, "server" fails), and, the stack passing, the level
\* error exactly when the level in lower case is none of "debug", "info",
\* "warn", "error" and "fatal".
C15_StackAndLevelAnyCase ==
    \A c \in DOMAIN calls :
        (Started(calls[c]) /\ StringArgs(calls[c].ev)) =>
            LET ev == calls[c].ev
                stackOk == toLowerCase(ev.stack.chars) \in
                               { <<"b", "a", "c", "k", "e", "n", "d">>,
                                 <<"f", "r", "o", "n", "t", "e", "n", "d">> }
                levelOk == toLowerCase(ev.level.chars) \in
                               { <<"d", "e", "b", "u", "g">>, <<"i", "n", "f", "o">>,
                                 <<"w", "a", "r", "n">>, <<"e", "r", "r", "o", "r">>,
                                 <<"f", "a", "t", "a", "l">> }
            IN  /\ Verdict(calls[c]) = "InvalidStack" <=> ~stackOk
                /\ stackOk => (Verdict(calls[c]) = "InvalidLevel" <=> ~levelOk)
                /\ ev.stack.chars = <<"B", "A", "C", "K", "E", "N", "D">> => stackOk
                /\ ev.stack.chars = <<"s", "e", "r", "v", "e", "r">> => ~stackOk

\* Log("BACKEND", "Error", "config", ...) passed the validator and was sent
C15_Witness ==
    \E c \in DOMAIN calls :
        /\ Started(calls[c])
        /\ calls[c].ev.stack = Str(<<"B", "A", "C", "K", "E", "N", "D">>)
        /\ calls[c].ev.level = Str(<<"E", "r", "r", "o", "r">>)
        /\ Verdict(calls[c]) = "ok"
        /\ Succeeded(calls[c])

\* C16: for string arguments with a valid level, the validator throws the
\* package error for a backend stack exactly when the package in lower case
\* is neither a backend nor a common package, and for a frontend stack
\* exactly when it is none of "auth", "config" and "middleware": a frontend
\* stack with a backend package such as "repository" fails.
C16_PackageGatedByStack ==
    \A c \in DOMAIN calls :
        (/\ Started(calls[c])
         /\ StringArgs(calls[c].ev)
         /\ toLowerCase(calls[c].ev.level.chars) \in ALLOWED_LEVELS) =>
            LET lowerStack == toLowerCase(calls[c].ev.stack.chars)
                pkg == toLowerCase(calls[c].ev.packageName.chars)
                fails == Verdict(calls[c]) = "InvalidPackage"
            IN  /\ lowerStack = <<"b", "a", "c", "k", "e", "n", "d">> =>
                      (fails <=> pkg \notin ALLOWED_BACKEND_PACKAGES \cup ALLOWED_COMMON_PACKAGES)
                /\ lowerStack = <<"f", "r", "o", "n", "t", "e", "n", "d">> =>
                      /\ fails <=> pkg \notin { <<"a", "u", "t", "h">>,
                                                <<"c", "o", "n", "f", "i", "g">>,
                                                <<"m", "i", "d", "d", "l", "e", "w", "a", "r", "e">> }
                      /\ pkg \in ALLOWED_BACKEND_PACKAGES => fails
                      /\ pkg = <<"r", "e", "p", "o", "s", "i", "t", "o", "r", "y">> => fails

\* Log("Frontend", "error", "repository", ...) failed on the package
C16_Witness ==
    \E c \in DOMAIN calls :
        /\ Started(calls[c])
        /\ calls[c].ev.stack = Str(<<"F", "r", "o", "n", "t", "e", "n", "d">>)
        /\ calls[c].ev.packageName = Str(<<"r", "e", "p", "o", "s", "i", "t", "o", "r", "y">>)
        /\ calls[c].ev.message = Str(DbConnectFailed)
        /\ calls[c].pc = "done"
        /\ calls[c].error = "InvalidPackage"

\* C17: for a valid stack, level and package and a string message, the
\* validator throws the message error exactly when the message is empty,
\* consists of white space only or has more than 48 characters; a message of
\* exactly 48 characters passes.
C17_MessageRule ==
    \A c \in DOMAIN calls :
        (/\ Started(calls[c])
         /\ StringArgs(calls[c].ev)
         /\ calls[c].ev.message.type = "string"
         /\ toLowerCase(calls[c].ev.stack.chars) \in ALLOWED_STACKS
         /\ toLowerCase(calls[c].ev.level.chars) \in ALLOWED_LEVELS
         /\ PackageAllowed(toLowerCase(calls[c].ev.stack.chars),
                           toLowerCase(calls[c].ev.packageName.chars))) =>
            LET msg == calls[c].ev.message.chars
                blank == \A i \in 1..Len(msg) : msg[i] \in {" ", "\t", "\n"}
            IN  /\ Verdict(calls[c]) = "InvalidMessage" <=> (blank \/ Len(msg) > 48)
                /\ Verdict(calls[c]) \in {"InvalidMessage", "ok"}
                /\ (Len(msg) = 48 /\ ~blank) => Verdict(calls[c]) = "ok"

\* a message of exactly 48 characters passed the validator and was sent
C17_Witness ==
    \E c \in DOMAIN calls :
        /\ Started(calls[c])
        /\ calls[c].ev.message.type = "string"
        /\ Len(calls[c].ev.message.chars) = 48
        /\ Verdict(calls[c]) = "ok"
        /\ calls[c].pc = "post"
        /\ Len(calls[c].lastPost.body.message) = 48

\* no upper-case letter occurs in the string
IsLowerCase(str) ==
    \A i \in 1..Len(str) : \A j \in 1..Len(UpperChars) : str[i] # UpperChars[j]

\* C18: the payload of every POST holds the stack, level and package of the
\* call's arguments in lower case ("Backend" is sent as "backend") and the
\* message as it was passed; the arguments do not change while the call
\* runs, so each retry sends the same payload.
C18_PayloadLowercase ==
    [][\A c \in DOMAIN calls :
          /\ calls'[c].pc = "post" =>
                LET ev == calls'[c].ev
                    body == calls'[c].lastPost.body
                IN  /\ body.stack = toLowerCase(ev.stack.chars)
                    /\ body.level = toLowerCase(ev.level.chars)
                    /\ body.package = toLowerCase(ev.packageName.chars)
                    /\ IsLowerCase(body.stack)
                    /\ IsLowerCase(body.level)
                    /\ IsLowerCase(body.package)
                    /\ body.message = ev.message.chars
                    /\ ev.stack.chars = <<"B", "a", "c", "k", "e", "n", "d">> =>
                          body.stack = <<"b", "a", "c", "k", "e", "n", "d">>
          /\ Running(calls[c]) => calls'[c].ev = calls[c].ev]_vars

\* the second attempt of Log("Backend", "WARN", "Auth", ...) posts the
\* lower-case payload
C18_Witness ==
    \E c \in DOMAIN calls :
        /\ calls[c].pc = "post"
        /\ calls[c].attempt = 2
        /\ calls[c].error = ""
        /\ calls[c].ev.stack = Str(<<"B", "a", "c", "k", "e", "n", "d">>)
        /\ calls[c].lastPost.body.stack = <<"b", "a", "c", "k", "e", "n", "d">>
        /\ calls[c].lastPost.body.level = <<"w", "a", "r", "n">>
        /\ calls[c].lastPost.body.package = <<"a", "u", "t", "h">>
        /\ calls[c].lastPost.body.message = Repeat("x", MAX_MESSAGE_LENGTH)

\* one of the six credential fields is missing or empty
CredentialsIncomplete == \E k \in 1..Len(EnvKeys) : env[k] = ""

\* C19: when one of the six credential fields is missing or empty, every
\* attempt that asks for a token fails with the missing-variable error
\* without an authentication request or a POST being sent, and the cached
\* credential stays as it is.
C19_MissingCredentialsFailFast ==
    [][CredentialsIncomplete =>
          /\ \A c \in DOMAIN calls :
                (calls'[c] # calls[c] /\ ValidEvent(calls'[c])) =>
                    /\ calls'[c].pc \in {"backoff", "done"}
                    /\ calls'[c].error =
                          "Authentication failed: Missing environment variable"
                    /\ calls'[c].lastPost = NoPost
                    /\ calls'[c].token = NoToken
                    /\ calls'[c].authFailure = NoAnswer
          /\ inflight = <<>> /\ inflight' = <<>>
          /\ Cache' = Cache]_vars

\* clientSecret is not set: the call has used up its three attempts on the
\* missing-variable error, and no request was sent
C19_Witness ==
    \E c \in DOMAIN calls :
        /\ env[Len(EnvKeys)] = ""
        /\ \A k \in 1..(Len(EnvKeys) - 1) : env[k] = "set"
        /\ ValidEvent(calls[c])
        /\ calls[c].pc = "done"
        /\ calls[c].attempt = DEFAULT_RETRIES
        /\ calls[c].error = "Authentication failed: Missing environment variable"
        /\ calls[c].result = Resolve(Null)
        /\ inflight = <<>>
        /\ Cache = <<NoToken, 0>>

\* the failure kind an error of getAuthToken stands for: a response that
\* cannot be parsed or lacks a field is malformed, anything else is a
\* request that failed
AuthErrorKind(error) ==
    IF error \in {"Authentication failed: Auth API response missing",
                  "Authentication failed: Failed to parse auth response"}
    THEN "AuthResponseMalformed"
    ELSE "AuthRequestFailed"

\* C20: when getAuthToken fails on the answer to its request, the error is
\* the malformed-response one for an answer with status 200 or 201 and the
\* request-failed one for any other status, whatever the body, for a
\* network error and for a timeout; the attempt has no token.
C20_AuthFailureKinds ==
    \A c \in DOMAIN calls :
        calls[c].authFailure # NoAnswer =>
            LET a == calls[c].authFailure
            IN  /\ calls[c].token = NoToken
                /\ calls[c].received = NoToken
                /\ AuthErrorKind(calls[c].error) =
                      IF a.kind = "response" /\ a.status \in {200, 201}
                      THEN "AuthResponseMalformed"
                      ELSE "AuthRequestFailed"

\* C21: the ceiling is the retries value given to the constructor, and 3
\* when none is given; a call with a valid event whose attempts all failed
\* has made exactly that many attempts, each but the last followed by one
\* backoff delay, so a ceiling of 1 gives one attempt and no delay.
C21_CeilingIsConfigured ==
    /\ config # 0 => retries = config
    /\ config = 0 => retries = 3
    /\ \A c \in DOMAIN calls :
          (Exhausted(calls[c]) /\ ValidEvent(calls[c])) =>
              /\ calls[c].attempt = (IF config # 0 THEN config ELSE 3)
              /\ Len(calls[c].delays) = calls[c].attempt - 1
              /\ config = 1 => (calls[c].attempt = 1 /\ calls[c].delays = <<>>)

\* a logger built with retries: 1 gave up after one failed POST without
\* setting a timer
C21_Witness ==
    \E c \in DOMAIN calls :
        /\ config = 1
        /\ Exhausted(calls[c])
        /\ ValidEvent(calls[c])
        /\ calls[c].attempt = 1
        /\ calls[c].delays = <<>>
        /\ calls[c].error = "Log API call failed with status"
        /\ calls[c].result = Resolve(Null)

\* the retry state of a call: where it is, its attempt number, the timers
\* it has set, its last error and its outcome
RetryState(r) ==
    <<r.pc, r.attempt, r.validations, r.delays, r.error, r.inner, r.result>>

\* C22: a step changes the retry state of one call at most.  A call starts
\* with attempt 1 whatever the other calls are doing, has set the timers
\* 1000 ms * n of its own failed attempts only, waits for a timer only
\* below the ceiling and is exhausted only at its own attempt number
\* ceiling.
C22_RetryStatePrivate ==
    [][/\ \E c \in DOMAIN calls :
             \A d \in DOMAIN calls \ {c} : RetryState(calls'[d]) = RetryState(calls[d])
       /\ \A c \in DOMAIN calls :
             /\ (calls[c].pc \in {"idle", "done"} /\ calls'[c] # calls[c]) =>
                   calls'[c].attempt = 1
             /\ calls'[c].pc = "backoff" =>
                   /\ calls'[c].attempt < retries
                   /\ calls'[c].delays = LinearDelays(calls'[c].attempt + 1)
             /\ calls'[c].pc \in {"auth", "post", "done"} =>
                   calls'[c].delays = LinearDelays(calls'[c].attempt)
             /\ Exhausted(calls'[c]) => calls'[c].attempt = retries]_vars

\* one call has used up its two attempts while the other, started
\* meanwhile, is in its first attempt and has set no timer
C22_Witness ==
    \E c, d \in DOMAIN calls :
        /\ c # d
        /\ retries = 2
        /\ Exhausted(calls[c]) /\ ValidEvent(calls[c])
        /\ calls[c].attempt = 2
        /\ calls[c].delays = <<BACKOFF_BASE_MS>>
        /\ calls[d].pc = "post"
        /\ calls[d].attempt = 1
        /\ calls[d].delays = <<>>

\* the level each convenience method stands for
FixedLevel(method) ==
    CASE method = "debug" -> Str(<<"d", "e", "b", "u", "g">>)
      [] method = "info" -> Str(<<"i", "n", "f", "o">>)
      [] method = "warn" -> Str(<<"w", "a", "r", "n">>)
      [] method = "error" -> Str(<<"e", "r", "r", "o", "r">>)
      [] method = "fatal" -> Str(<<"f", "a", "t", "a", "l">>)

\* C23: a call made through debug, info, warn, error or fatal is the call
\* Log(stack, <that level>, packageName, message): it is validated as that
\* event, its first attempt and each retry do what they do for Log, and the
\* payload it posts carries that level.
C23_ConvenienceIsLog ==
    [][\A c \in DOMAIN calls :
          (calls'[c].via # ViaLog /\ calls'[c] # calls[c]) =>
              LET v == calls'[c].via
                  asLog == [IdleCall EXCEPT
                               !.ev = Event(v.stack, FixedLevel(v.method),
                                            v.packageName, v.message)]
              IN  /\ v.method \in Methods
                  /\ calls'[c].ev = asLog.ev
                  /\ ValidEvent(calls'[c]) <=>
                        validateLogParams(v.stack, FixedLevel(v.method),
                                          v.packageName, v.message) = "ok"
                  /\ calls[c].pc \in {"idle", "done"} =>
                        calls'[c] = [logWithRetry(asLog, 1) EXCEPT !.via = v]
                  /\ calls[c].pc = "backoff" =>
                        calls'[c] =
                            [logWithRetry([calls[c] EXCEPT !.via = ViaLog],
                                          calls[c].attempt + 1) EXCEPT !.via = v]
                  /\ calls[c].pc \in {"auth", "post", "backoff"} => calls[c].via = v
                  /\ calls'[c].pc = "post" =>
                        calls'[c].lastPost.body.level = FixedLevel(v.method).chars]_vars

\* fatal("Backend", "Auth", ...) is in its second attempt and posts the
\* level "fatal"
C23_Witness ==
    \E c \in DOMAIN calls :
        /\ calls[c].via # ViaLog
        /\ calls[c].via.method = "fatal"
        /\ calls[c].via.stack = Str(<<"B", "a", "c", "k", "e", "n", "d">>)
        /\ calls[c].pc = "post"
        /\ calls[c].attempt = 2
        /\ calls[c].lastPost.body.level = <<"f", "a", "t", "a", "l">>
        /\ calls[c].lastPost.body.package = <<"a", "u", "t", "h">>

\* C24: a token that getAuthToken returns, from the cache or from the
\* answer just received, belongs to a credential that is valid at that
\* moment: now < expiry - 60 s.
C24_ReturnedTokenIsFresh ==
    [][\A c \in DOMAIN calls :
          (calls'[c] # calls[c] /\ calls'[c].pc = "post") =>
              /\ calls'[c].token = currentToken'
              /\ now' < tokenExpiryTime' - 60]_vars

\* C25: the cached token and the cached expiry are the initial null and 0,
\* or the access_token and the expires_in of one and the same answer of the
\* authentication endpoint, in every interleaving of concurrent refreshes.
C25_TokenAndExpiryBelongTogether ==
    \/ Cache = <<NoToken, 0>>
    \/ \E resp \in PairAuthResponses(now) :
          /\ resp.kind = "response"
          /\ Cache = <<resp.body.access_token, resp.body.expires_in>>

\* two refreshes raced; the one answered last brought the token with the
\* nearer expiry, and the cache holds that token with that expiry
C25_Witness ==
    \E c, d \in DOMAIN calls :
        /\ c # d
        /\ calls[c].pc = "post" /\ calls[c].received = "tok2"
        /\ calls[d].pc = "post" /\ calls[d].received = "tok1"
        /\ calls[c].attempt = 1 /\ calls[d].attempt = 1
        /\ Cache = <<"tok1", now + TickSeconds>>

\* C26: the cached token and expiry change only in the step in which a
\* call's authentication request is answered with a credential, and then to
\* a non-empty token and an expiry; a new call, a cache hit, a failed
\* validation, a fired timer, a failed or malformed authentication answer
\* and any answer to a POST leave them as they are, and a cache that holds
\* a credential is never empty again.
C26_CacheChangesOnSuccessOnly ==
    [][/\ Cache' # Cache =>
             \E c \in DOMAIN calls :
                 /\ calls[c].pc = "auth"
                 /\ calls'[c].pc = "post"
                 /\ calls'[c].authFailure = NoAnswer
                 /\ calls'[c].received = currentToken'
                 /\ currentToken' \in Tokens
                 /\ tokenExpiryTime' # 0
       /\ \A c \in DOMAIN calls :
             /\ Invokes(c) => Cache' = Cache
             /\ (calls[c].pc = "post" /\ Answered(c)) => Cache' = Cache
             /\ (calls'[c] # calls[c] /\ calls'[c].error # "") => Cache' = Cache
       /\ currentToken # NoToken =>
             (currentToken' # NoToken /\ tokenExpiryTime' # 0)]_vars

\* the cached credential had come inside the safety margin, the refresh was
\* answered with a response that lacks the expiry, and the cache still holds
\* the old credential
C26_Witness ==
    \E c \in DOMAIN calls :
        /\ calls[c].pc = "backoff"
        /\ calls[c].authFailure.kind = "response"
        /\ calls[c].authFailure.status = 200
        /\ calls[c].authFailure.body # BadJson
        /\ calls[c].error = "Authentication failed: Auth API response missing"
        /\ currentToken = "tok1"
        /\ tokenExpiryTime <= now + EXPIRY_BUFFER

\* C27: for string arguments the validator reports the first rule broken in
\* the order stack, level, package, message, whatever later rules are
\* broken too (an invalid stack with a message of 49 characters gives the
\* stack error); the package is looked up in the list of the stack that
\* passed: backend and common packages for "backend", common ones for
\* "frontend".
C27_FirstBrokenRule ==
    \A c \in DOMAIN calls :
        (Started(calls[c]) /\ StringArgs(calls[c].ev)) =>
            LET ev == calls[c].ev
                lowerStack == toLowerCase(ev.stack.chars)
                pkg == toLowerCase(ev.packageName.chars)
                stackOk == lowerStack \in ALLOWED_STACKS
                levelOk == toLowerCase(ev.level.chars) \in ALLOWED_LEVELS
                packageOk ==
                    IF lowerStack = <<"b", "a", "c", "k", "e", "n", "d">>
                    THEN pkg \in ALLOWED_BACKEND_PACKAGES \cup ALLOWED_COMMON_PACKAGES
                    ELSE pkg \in ALLOWED_COMMON_PACKAGES
                messageOk ==
                    /\ ev.message.type = "string"
                    /\ \E i \in 1..Len(ev.message.chars) :
                          ev.message.chars[i] \notin {" ", "\t", "\n"}
                    /\ Len(ev.message.chars) <= 48
            IN  /\ Verdict(calls[c]) =
                      IF ~stackOk THEN "InvalidStack"
                      ELSE IF ~levelOk THEN "InvalidLevel"
                      ELSE IF ~packageOk THEN "InvalidPackage"
                      ELSE IF ~messageOk THEN "InvalidMessage"
                      ELSE "ok"
                /\ (/\ ev.stack.chars = <<"s", "e", "r", "v", "e", "r">>
                    /\ ev.message.type = "string"
                    /\ Len(ev.message.chars) > 48) =>
                      calls[c].error = "InvalidStack"

\* Log("server", "error", "api", <49 characters>) breaks the stack, the
\* package and the message rule and failed on the stack
C27_Witness ==
    \E c \in DOMAIN calls :
        /\ Started(calls[c])
        /\ calls[c].ev.stack = Str(<<"s", "e", "r", "v", "e", "r">>)
        /\ calls[c].ev.packageName = Str(<<"a", "p", "i">>)
        /\ calls[c].ev.message = Str(Repeat("x", MAX_MESSAGE_LENGTH + 1))
        /\ calls[c].pc = "done"
        /\ calls[c].error = "InvalidStack"
        /\ calls[c].result = Resolve(Null)

====
